---- MODULE Spec2Model ----
(***************************************************************************)
(* Board-state synchronisation layer of arduinors: the Arduino handle of   *)
(* src/arduino/board.rs (write, set_pin_mode, the snapshot rebuild) and    *)
(* the DigitalPin / PinMode types of src/arduino/mod.rs; the toolchain     *)
(* layer of src/cli (query.rs, board.rs, info.rs, run.rs) and the Pin of   *)
(* src/pin.rs.                                                             *)
(*                                                                         *)
(* The firmata transport is an external collaborator.  Its pin list is    *)
(* the variable pins; its three primitives are modelled by what the       *)
(* handle can observe of them: set_pin_mode records the mode code on the  *)
(* addressed transport pin, the two writes change only a pin's value,     *)
(* which the handle never reads and which is therefore not kept.          *)
(***************************************************************************)
EXTENDS Integers, Sequences, FiniteSets, TLC

VARIABLES
    pins,             \* firmata::Board::pins, the transport's pin list
    digital_pins,     \* Arduino::digital_pins, the snapshot collection
    phase,            \* "new" before Arduino::from, then "live" or "aborted"
    last,             \* the call the caller is looking at: arguments, outcome, pre-state
    overflow_checks,  \* build profile: TRUE when i32 overflow panics (debug)
    firmata_pin,      \* SpecSnap: the descriptor handed to from_digital
    snapshot,         \* SpecSnap: what from_digital produced
    rb,               \* SpecRebuild: the channel chain of digital_pins_for_board
    process,          \* SpecCli: what the external arduino-cli process does when run
    sketch,           \* SpecCli: the file system as seen through the sketch path
    device_info,      \* SpecCli: the device record handed to compile / upload
    cli,              \* SpecCli: the toolchain call the caller is looking at
    pin_new           \* SpecPin: the last call of Pin::new

board_vars == <<pins, digital_pins, phase, last, overflow_checks, firmata_pin, snapshot, rb>>

lib_vars == <<process, sketch, device_info, cli, pin_new>>

vars == <<pins, digital_pins, phase, last, overflow_checks, firmata_pin, snapshot, rb,
          process, sketch, device_info, cli, pin_new>>

----------------------------------------------------------------------------
(* Bounds and input sets                                                   *)

\* Longest advertised (mode, resolution) sequence of a pin of the handle model.
MaxModes == 3

MaxI32 == 2147483647
MinI32 == (-MaxI32) - 1

\* u8 mode codes the transport may report: the twelve known ones and one
\* the PinMode enumeration does not know.
ModeCodes == 0..12

\* u8 resolutions: small ones, the last that fits an i32 range, and
\* resolutions for which 2^r leaves the i32 range.
Resolutions == {0, 1, 2, 10, 30, 31, 32, 255}

----------------------------------------------------------------------------
(* src/arduino/mod.rs: PinMode                                             *)

\* enum PinMode, in discriminant order 0x0 .. 0xB.
PinModes == <<"DigitalInput", "DigitalOutput", "AnalogInput", "Pwm", "Servo", "Shift",
              "I2c", "OneWire", "Stepper", "Encoder", "Serial", "InputPullup">>

PinModeSet == {PinModes[i] : i \in DOMAIN PinModes}

\* PinMode::from(value: u8); "panic" stands for the panic! of the last arm.
PinMode_from_off_by_one(value) ==
    IF value \in 1..(Len(PinModes)) THEN PinModes[value] ELSE "panic"

PinMode_from(value) ==
    IF value \in 0..(Len(PinModes) - 1) THEN PinModes[value + 1] ELSE "panic"

\* `mode as u8`: the discriminant of the variant.
PinMode_as_u8(mode) == (CHOOSE i \in DOMAIN PinModes : PinModes[i] = mode) - 1

----------------------------------------------------------------------------
(* src/arduino/mod.rs: DigitalPin                                          *)

NoPin == [mode |-> "none", bit_resolution |-> 0, valid_modes |-> <<>>]

\* 2i32.pow(exp) for a u8 exponent: the value 2^exp reduced to 32 bits two's
\* complement (2^31 wraps to i32::MIN, every higher power to 0), and whether
\* a multiplication left the i32 range on the way.
i32_pow2(exp) ==
    [value    |-> IF exp <= 30 THEN 2^exp ELSE IF exp = 31 THEN MinI32 ELSE 0,
     overflow |-> exp >= 31]

\* DigitalPin::valid_values: the Range 0..2^bit_resolution.  With overflow
\* checks the multiplication panics, without it wraps.
valid_values(pin, checks) ==
    LET p == i32_pow2(pin.bit_resolution)
    IN  IF checks /\ p.overflow THEN [panic |-> TRUE, start |-> 0, end |-> 0]
        ELSE [panic |-> FALSE, start |-> 0, end |-> p.value]

\* Range<i32>::contains
RangeContains(range, v) == range.start <= v /\ v < range.end

\* The for loop of DigitalPin::from_digital from entry i on.  bit_resolution
\* is the Option<u8>, a sequence of length 0 (None) or 1 (Some).
RECURSIVE from_digital_loop(_, _, _, _)
from_digital_loop(fpin, i, bit_resolution, valid_modes) ==
    IF i > Len(fpin.modes)
    THEN [panic |-> FALSE, bit_resolution |-> bit_resolution, valid_modes |-> valid_modes]
    ELSE LET firmata_mode == fpin.modes[i]
             matches      == firmata_mode.mode = fpin.mode
         IN  IF matches /\ bit_resolution # <<>>
             THEN [panic |-> TRUE, bit_resolution |-> <<>>, valid_modes |-> <<>>]
             ELSE IF PinMode_from(firmata_mode.mode) = "panic"
             THEN [panic |-> TRUE, bit_resolution |-> <<>>, valid_modes |-> <<>>]
             ELSE from_digital_loop(fpin, i + 1,
                      IF matches THEN <<firmata_mode.resolution>> ELSE bit_resolution,
                      Append(valid_modes, PinMode_from(firmata_mode.mode)))

\* DigitalPin::from_digital
from_digital_first_match(fpin) ==
    LET hits == {i \in DOMAIN fpin.modes : fpin.modes[i].mode = fpin.mode}
        all  == [i \in DOMAIN fpin.modes |-> PinMode_from(fpin.modes[i].mode)]
    IN  IF PinMode_from(fpin.mode) = "panic" \/ \E i \in DOMAIN all : all[i] = "panic"
             \/ (hits = {} /\ fpin.modes # <<>>)
        THEN [panic |-> TRUE, pin |-> NoPin]
        ELSE [panic |-> FALSE,
              pin   |-> [mode           |-> PinMode_from(fpin.mode),
                         bit_resolution |-> IF hits = {} THEN 0
                                            ELSE fpin.modes[CHOOSE i \in hits :
                                                     \A j \in hits : i <= j].resolution,
                         valid_modes    |-> all]]

from_digital(fpin) ==
    LET mode == PinMode_from(fpin.mode)
    IN  IF mode = "panic" THEN [panic |-> TRUE, pin |-> NoPin]
        ELSE LET loop == from_digital_loop(fpin, 1, <<>>, <<>>)
                 bit_resolution == IF ~loop.panic /\ loop.valid_modes = <<>>
                                   THEN <<0>> ELSE loop.bit_resolution
             IN  IF loop.panic \/ bit_resolution = <<>>
                 THEN [panic |-> TRUE, pin |-> NoPin]
                 ELSE [panic |-> FALSE,
                       pin   |-> [mode           |-> mode,
                                  bit_resolution |-> bit_resolution[1],
                                  valid_modes    |-> loop.valid_modes]]

----------------------------------------------------------------------------
(* The transport (firmata::Board) as the handle uses it                    *)

\* firmata::Board::set_pin_mode(pin, mode): the addressed transport pin
\* records the mode code.  pin indexes the transport's whole pin list.
board_set_pin_mode(board, pin, mode) == [board EXCEPT ![pin + 1].mode = mode]

\* firmata::Board::digital_write / analog_write(pin, level): they change the
\* pin's value only, which is no part of a descriptor as the handle reads it.
board_digital_write(board, pin, level) == board

board_analog_write(board, pin, level) == board

----------------------------------------------------------------------------
(* src/arduino/board.rs: Arduino                                           *)

\* board.pins.iter().filter(|pin| !pin.analog)
filter_non_analog(board) == SelectSeq(board, LAMBDA pin : ~pin.analog)

\* pin_list.push(digital_pin)
push_front(pin_list, digital_pin) == <<digital_pin>> \o pin_list

push(pin_list, digital_pin) == Append(pin_list, digital_pin)

\* The for loop of digital_pins_for_board from the k-th filtered pin on:
\* the worker of iteration k converts its pin, receives the list built so
\* far, pushes and hands the list on.  A panicking worker fails the scope.
RECURSIVE digital_pins_chain(_, _, _)
digital_pins_chain(filtered, k, pin_list) ==
    IF k > Len(filtered) THEN [panic |-> FALSE, pins |-> pin_list]
    ELSE LET digital_pin == from_digital(filtered[k])
         IN  IF digital_pin.panic THEN [panic |-> TRUE, pins |-> <<>>]
             ELSE digital_pins_chain(filtered, k + 1, push(pin_list, digital_pin.pin))

\* Arduino::digital_pins_for_board
digital_pins_for_board(board) == digital_pins_chain(filter_non_analog(board), 1, <<>>)

\* `pin_index as usize`: a negative i32 sign-extends to 2^64 + pin_index,
\* kept as the pair (carry, off) standing for carry * 2^64 + off.
as_usize_abs(i) == [carry |-> 0, off |-> IF i < 0 THEN IF i = MinI32 THEN MaxI32 ELSE -i ELSE i]

as_usize(i) == [carry |-> IF i < 0 THEN 1 ELSE 0, off |-> i]

\* Vec::get(index: usize) -> Option: <<>> is None, <<x>> is Some(x).
vec_get(vec, index) ==
    IF index.carry = 0 /\ index.off < Len(vec) THEN <<vec[index.off + 1]>> ELSE <<>>

\* The outcome of a call: the Result (or "panic"), the transport and the
\* snapshot collection after it, and the transport primitives it issued.
Outcome(result, board, dpins, issued) ==
    [result |-> result, board |-> board, digital_pins |-> dpins, issued |-> issued]

\* self.digital_pins = Arduino::digital_pins_for_board(&self.board); Ok(())
\* A panic inside the rebuild unwinds before the assignment.
refresh_stale(self, board, issued) == Outcome("Ok", board, self.digital_pins, issued)

refresh(self, board, issued) ==
    LET rebuilt == digital_pins_for_board(board)
    IN  IF rebuilt.panic THEN Outcome("panic", board, self.digital_pins, issued)
        ELSE Outcome("Ok", board, rebuilt.pins, issued)

Primitive(name, pin, arg) == [prim |-> name, pin |-> pin, arg |-> arg]

\* The match on pin.mode() in Arduino::write.
write_dispatch(self, pin, pin_index, value) ==
    IF pin.mode = "DigitalOutput"
    THEN refresh(self, board_digital_write(self.board, pin_index, value),
                 <<Primitive("digital_write", pin_index, value)>>)
    ELSE IF pin.mode = "Pwm"
    THEN refresh(self, board_analog_write(self.board, pin_index, value),
                 <<Primitive("analog_write", pin_index, value)>>)
    ELSE Outcome("Unimplemented", self.board, self.digital_pins, <<>>)

\* Arduino::write
write_early_primitive(self, pin_index, value, checks) ==
    LET got == vec_get(self.digital_pins, as_usize(pin_index))
    IN  IF got = <<>> THEN Outcome("InvalidPinIndex", self.board, self.digital_pins, <<>>)
        ELSE LET range == valid_values(got[1], checks)
             IN  IF range.panic THEN Outcome("panic", self.board, self.digital_pins, <<>>)
                 ELSE IF RangeContains(range, value)
                 THEN write_dispatch(self, got[1], pin_index, value)
                 ELSE Outcome("ValueOutOfBounds", self.board, self.digital_pins,
                              <<Primitive("digital_write", pin_index, value)>>)

write(self, pin_index, value, checks) ==
    LET got == vec_get(self.digital_pins, as_usize(pin_index))
    IN  IF got = <<>> THEN Outcome("InvalidPinIndex", self.board, self.digital_pins, <<>>)
        ELSE LET range == valid_values(got[1], checks)
             IN  IF range.panic THEN Outcome("panic", self.board, self.digital_pins, <<>>)
                 ELSE IF RangeContains(range, value)
                 THEN write_dispatch(self, got[1], pin_index, value)
                 ELSE Outcome("ValueOutOfBounds", self.board, self.digital_pins, <<>>)

\* Vec<PinMode>::contains
modes_contain(valid_modes, mode) == \E i \in DOMAIN valid_modes : valid_modes[i] = mode

\* Arduino::set_pin_mode
set_pin_mode(self, pin_index, mode) ==
    LET got == vec_get(self.digital_pins, as_usize(pin_index))
    IN  IF got = <<>> THEN Outcome("InvalidPinIndex", self.board, self.digital_pins, <<>>)
        ELSE IF modes_contain(got[1].valid_modes, mode)
        THEN refresh(self, board_set_pin_mode(self.board, pin_index, PinMode_as_u8(mode)),
                     <<Primitive("set_pin_mode", pin_index, PinMode_as_u8(mode))>>)
        ELSE Outcome("InvalidMode", self.board, self.digital_pins, <<>>)

\* Arduino::from, past firmata::Board::new: the first snapshot rebuild.
Arduino_from(board) == digital_pins_for_board(board)

----------------------------------------------------------------------------
(* The handle as a state machine                                           *)

\* Advertised entries of the handle model's pins: digital-output with one
\* bit, pwm with eight.
Caps == {[mode |-> 1, resolution |-> 1], [mode |-> 3, resolution |-> 8]}

AdvertisedSeqs(entries, n) == UNION {[1..k -> entries] : k \in 0..n}

DigitalDescriptors ==
    [analog : {FALSE}, mode : {c.mode : c \in Caps}, modes : AdvertisedSeqs(Caps, MaxModes)]

AnalogDescriptors ==
    {[analog |-> TRUE, mode |-> 2, modes |-> <<[mode |-> 2, resolution |-> 10]>>]}

\* Which pins of the transport's list are analog: none at all, analog pins
\* before, between and after the digital ones.
AnalogPatterns ==
    {<<>>, <<TRUE>>, <<FALSE>>, <<TRUE, FALSE>>, <<FALSE, TRUE>>, <<FALSE, FALSE>>,
     <<TRUE, FALSE, FALSE>>}

PatternLists(pattern) ==
    {list \in [DOMAIN pattern -> DigitalDescriptors \cup AnalogDescriptors] :
        \A i \in DOMAIN pattern : list[i].analog = pattern[i]}

\* One-pin transports over every mode code and resolution.
WidePinLists ==
    {<<[analog |-> FALSE, mode |-> m, modes |-> <<[mode |-> m, resolution |-> r]>>]>> :
        m \in ModeCodes, r \in Resolutions}

PinLists == (UNION {PatternLists(pattern) : pattern \in AnalogPatterns}) \cup WidePinLists

PinIndexArgs == {MinI32, -1, 0, 1, 2}

ValueArgs == {-1, 0, 1, 2, 4, 255, 256, 1024, 2^30, MaxI32}

NoDescriptor == [analog |-> FALSE, mode |-> 0, modes |-> <<>>]

NoSnapshot == [done |-> FALSE, panic |-> FALSE, pin |-> NoPin]

NoRebuild ==
    [pc |-> "off", k |-> 0, chan |-> <<>>, tx_alive |-> <<>>, worker_pc |-> "none",
     digital_pin |-> NoPin, pin_list |-> <<>>, result |-> <<>>]

NoCall ==
    [op |-> "none", pin_index |-> 0, value |-> 0, mode |-> "none", result |-> "none",
     issued |-> <<>>, pre_pins |-> <<>>, pre_digital_pins |-> <<>>]

NoProcess ==
    [kind |-> "none", spawn |-> FALSE, success |-> FALSE, utf8 |-> FALSE, stdout |-> <<>>,
     printed |-> <<>>]

NoSketch ==
    [canonical |-> FALSE, is_dir |-> FALSE, readable |-> FALSE, file_name |-> <<>>,
     name_utf8 |-> FALSE, path_utf8 |-> FALSE, entries |-> {}, path |-> <<>>]

NoDeviceInfo == [name |-> <<>>, fqbn |-> <<>>, port |-> <<>>, usbID |-> <<>>]

NoCliCall ==
    [op |-> "none", query |-> "none", result |-> "none", value |-> <<>>, invoked |-> 0,
     args |-> <<>>]

NoPinNew == [called |-> FALSE, arg |-> 0, panic |-> FALSE, value |-> 0]

\* The toolchain layer and Pin are not in use.
LibIdle ==
    /\ process = NoProcess
    /\ sketch = NoSketch
    /\ device_info = NoDeviceInfo
    /\ cli = NoCliCall
    /\ pin_new = NoPinNew

Init ==
    /\ pins \in PinLists
    /\ overflow_checks \in BOOLEAN
    /\ digital_pins = <<>>
    /\ phase = "new"
    /\ last = NoCall
    /\ firmata_pin = NoDescriptor
    /\ snapshot = NoSnapshot
    /\ rb = NoRebuild
    /\ LibIdle

Self == [board |-> pins, digital_pins |-> digital_pins]

Returned(out, op, pin_index, value, mode) ==
    /\ pins' = out.board
    /\ digital_pins' = out.digital_pins
    /\ phase' = IF out.result = "panic" THEN "aborted" ELSE "live"
    /\ last' = [op |-> op, pin_index |-> pin_index, value |-> value, mode |-> mode,
                result |-> out.result, issued |-> out.issued,
                pre_pins |-> pins, pre_digital_pins |-> digital_pins]
    /\ UNCHANGED <<overflow_checks, firmata_pin, snapshot, rb, lib_vars>>

\* Arduino::from
Construct ==
    /\ phase = "new"
    /\ LET built == Arduino_from(pins)
       IN  Returned(Outcome(IF built.panic THEN "panic" ELSE "Ok", pins, built.pins, <<>>),
                    "from", 0, 0, "none")

\* a call of Arduino::write on the live handle
Write ==
    /\ phase = "live"
    /\ last = NoCall
    /\ \E pin_index \in PinIndexArgs, value \in ValueArgs :
          Returned(write(Self, pin_index, value, overflow_checks),
                   "write", pin_index, value, "none")

\* a call of Arduino::set_pin_mode on the live handle
SetPinMode ==
    /\ phase = "live"
    /\ last = NoCall
    /\ \E pin_index \in PinIndexArgs, mode \in PinModeSet :
          Returned(set_pin_mode(Self, pin_index, mode), "set_pin_mode", pin_index, 0, mode)

\* The caller drops the Result it got and is free to call again.
DropResult ==
    /\ phase = "live"
    /\ last # NoCall
    /\ last' = NoCall
    /\ UNCHANGED <<pins, digital_pins, phase, overflow_checks, firmata_pin, snapshot, rb, lib_vars>>

Next == Construct \/ Write \/ SetPinMode \/ DropResult

Spec == Init /\ [][Next]_vars

\* The handle in a build without overflow checks (the release profile).
InitRelease == Init /\ ~overflow_checks

SpecRelease == InitRelease /\ [][Next]_vars

----------------------------------------------------------------------------
(* What the claims speak about                                             *)

\* The positions of the non-analog pins in a transport pin list, and the
\* k-th of them in transport order.
NonAnalogIndices(board) == {i \in DOMAIN board : ~board[i].analog}

KthNonAnalog(board, k) ==
    CHOOSE i \in NonAnalogIndices(board) :
        Cardinality({j \in NonAnalogIndices(board) : j < i}) = k - 1

\* Every non-analog pin of the list has a snapshot.
Constructible(board) == \A i \in NonAnalogIndices(board) : ~from_digital(board[i]).panic

\* One snapshot per non-analog pin, in transport order.
DerivedSnapshots(board) ==
    [k \in 1..Cardinality(NonAnalogIndices(board)) |->
        from_digital(board[KthNonAnalog(board, k)]).pin]

ErrorValues == {"InvalidPinIndex", "ValueOutOfBounds", "InvalidMode", "Unimplemented"}

IsCall == last.op \in {"write", "set_pin_mode"}

\* The index of the call the caller looks at lies in [0, number of snapshots).
IndexInRange == 0 <= last.pin_index /\ last.pin_index < Len(last.pre_digital_pins)

\* The snapshot that validated the call the caller looks at.
CalledPin == last.pre_digital_pins[last.pin_index + 1]

\* v < 2^r for an i32 v and a u8 r, over the integers.
BelowPow2(v, r) == r >= 31 \/ v < 2^r

\* C1: whenever the handle is live (constructed, every call so far returned),
\* its snapshot collection is the one derived from the transport's current
\* pin list, one snapshot per non-analog pin in transport order; a call that
\* returned Ok issued its one primitive, the transport shows its effect, and
\* the collection was rebuilt from the transport after it.
C1_SnapshotsFollowTransport ==
    phase = "live" =>
        /\ Constructible(pins)
        /\ digital_pins = DerivedSnapshots(pins)
        /\ (IsCall /\ last.result = "Ok") =>
              /\ Len(last.issued) = 1
              /\ last.op = "set_pin_mode" =>
                    /\ last.issued[1].arg = PinMode_as_u8(last.mode)
                    /\ pins[last.issued[1].pin + 1].mode = last.issued[1].arg

\* C1 witness: a set_pin_mode returned Ok and the rebuild changed a snapshot.
C1_Witness ==
    /\ phase = "live" /\ last.op = "set_pin_mode" /\ last.result = "Ok"
    /\ digital_pins # last.pre_digital_pins

\* C2: for an in-range index, set_pin_mode returns Ok exactly when the mode is
\* among the snapshot's supported modes; otherwise the result is InvalidMode,
\* nothing is issued, transport and snapshots are unchanged, and the same
\* call on the resulting handle gives InvalidMode again with no change.
C2_SetPinModeOkIffSupported ==
    (last.op = "set_pin_mode" /\ IndexInRange) =>
        /\ (last.result = "Ok") <=> modes_contain(CalledPin.valid_modes, last.mode)
        /\ ~modes_contain(CalledPin.valid_modes, last.mode) =>
              /\ last.result = "InvalidMode"
              /\ last.issued = <<>>
              /\ pins = last.pre_pins
              /\ digital_pins = last.pre_digital_pins
              /\ set_pin_mode(Self, last.pin_index, last.mode)
                    = Outcome("InvalidMode", pins, digital_pins, <<>>)

\* C3: for an in-range index whose snapshot has bit resolution r, write
\* returns Ok only if 0 <= v < 2^r, the value 2^r yields ValueOutOfBounds,
\* and valid_values reports exactly the range [0, 2^r).
C3_LegalRangeIsPow2 ==
    (last.op = "write" /\ IndexInRange) =>
        LET r     == CalledPin.bit_resolution
            range == valid_values(CalledPin, overflow_checks)
        IN  /\ last.result = "Ok" => (0 <= last.value /\ BelowPow2(last.value, r))
            /\ (r <= 30 /\ last.value = 2^r) => last.result = "ValueOutOfBounds"
            /\ ~range.panic
            /\ \A v \in ValueArgs : RangeContains(range, v) <=> (0 <= v /\ BelowPow2(v, r))

\* C4: for an in-range index and a value in [0, 2^r), write issues exactly
\* one primitive chosen by the snapshot's mode, a digital write for
\* digital-output, an analog write for pwm, and returns Unimplemented for
\* each other mode; a value outside the range yields ValueOutOfBounds whatever
\* the mode.
C4_WriteDispatch ==
    (last.op = "write" /\ IndexInRange) =>
        LET r  == CalledPin.bit_resolution
            ok == 0 <= last.value /\ BelowPow2(last.value, r)
        IN  /\ (ok /\ CalledPin.mode = "DigitalOutput") =>
                  last.issued = <<Primitive("digital_write", last.pin_index, last.value)>>
            /\ (ok /\ CalledPin.mode = "Pwm") =>
                  last.issued = <<Primitive("analog_write", last.pin_index, last.value)>>
            /\ (ok /\ CalledPin.mode \notin {"DigitalOutput", "Pwm"}) =>
                  (last.result = "Unimplemented" /\ last.issued = <<>>)
            /\ ~ok => last.result = "ValueOutOfBounds"

\* C5: a write that returned an error issued no transport primitive and left
\* the transport and the snapshot collection as they were.
C5_FailedWriteHasNoEffect ==
    (last.op = "write" /\ last.result \in ErrorValues) =>
        /\ last.issued = <<>>
        /\ pins = last.pre_pins
        /\ digital_pins = last.pre_digital_pins

\* C5 witness: a write on a pin in a mode without write primitive returned
\* Unimplemented.
C5_Witness ==
    /\ last.op = "write" /\ last.result = "Unimplemented"
    /\ IndexInRange /\ CalledPin.mode = "Servo"

\* C6: for every index outside [0, number of snapshots), negative ones
\* included, write and set_pin_mode return InvalidPinIndex.
C6_OutOfRangeIndex ==
    (IsCall /\ ~IndexInRange) => last.result = "InvalidPinIndex"

\* C6 witness: a negative index on a handle with two snapshots was rejected.
C6_Witness ==
    /\ IsCall /\ last.pin_index = -1 /\ Len(last.pre_digital_pins) = 2
    /\ last.result = "InvalidPinIndex"

\* C7: every call of write or set_pin_mode on a constructed handle ends by
\* returning Ok or one of the four error values, never in a fatal abort.
C7_NoFatalAbort ==
    IsCall => last.result \in ErrorValues \cup {"Ok"}

\* The position, in the transport's pin list as it was before the call, of
\* the pin behind the snapshot that validated the call.
ValidatedPin == KthNonAnalog(last.pre_pins, last.pin_index + 1)

\* C21: for every transport pin list, also one in which an analog pin
\* precedes a non-analog pin, the transport pin addressed by the primitive
\* that write(i, v) or set_pin_mode(i, m) issues is the pin behind snapshot
\* i, the snapshot that validated the request.
C21_PrimitiveReachesValidatedPin ==
    (IsCall /\ IndexInRange /\ last.issued # <<>>) =>
        \A p \in DOMAIN last.issued : last.issued[p].pin + 1 = ValidatedPin

\* The entries by which a transport pin advertises a mode.
AdvertisedFor(fpin, mode) ==
    {e \in DOMAIN fpin.modes : fpin.modes[e].mode = PinMode_as_u8(mode)}

\* What the next write(i, v) on the handle returns when it is validated
\* against mode m and the range [0, 2^res).
WriteResultFor(m, res, v) ==
    IF ~(0 <= v /\ BelowPow2(v, res)) THEN "ValueOutOfBounds"
    ELSE IF m \in {"DigitalOutput", "Pwm"} THEN "Ok"
    ELSE "Unimplemented"

\* C22: with a transport that records a mode-set as the active mode of the
\* pin it addresses, after set_pin_mode(i, m) returned Ok snapshot i reports
\* mode m, its legal range is [0, 2^res) for a resolution res the pin
\* advertises for m, the next write(i, v) is validated against that mode and
\* range, and the snapshot of every pin whose descriptor the transport did
\* not change is what it was.
C22_ModeChangeShowsInSnapshot ==
    (last.op = "set_pin_mode" /\ last.result = "Ok") =>
        LET i     == last.pin_index + 1
            fpin  == last.pre_pins[ValidatedPin]
            range == valid_values(digital_pins[i], overflow_checks)
        IN  /\ Len(digital_pins) = Len(last.pre_digital_pins)
            /\ digital_pins[i].mode = last.mode
            /\ \E e \in AdvertisedFor(fpin, last.mode) :
                  LET res == fpin.modes[e].resolution
                  IN  /\ digital_pins[i].bit_resolution = res
                      /\ ~range.panic
                      /\ \A v \in ValueArgs :
                            /\ RangeContains(range, v) <=> (0 <= v /\ BelowPow2(v, res))
                            /\ write(Self, last.pin_index, v, overflow_checks).result
                                  = WriteResultFor(last.mode, res, v)
            /\ \A k \in DOMAIN digital_pins :
                  pins[KthNonAnalog(pins, k)] = last.pre_pins[KthNonAnalog(last.pre_pins, k)]
                      => digital_pins[k] = last.pre_digital_pins[k]

----------------------------------------------------------------------------
(* Snapshot construction on its own: SpecSnap                              *)

\* Mode codes and resolutions of the descriptors handed to from_digital:
\* known codes, the unknown code 12, and resolutions up to the u8 maximum.
SnapCodes == {0, 1, 11, 12}

SnapResolutions == {0, 1, 255}

SnapCaps == [mode : SnapCodes, resolution : SnapResolutions]

SnapDescriptors ==
    [analog : {FALSE}, mode : SnapCodes, modes : AdvertisedSeqs(SnapCaps, MaxModes)]

InitSnap ==
    /\ firmata_pin \in SnapDescriptors
    /\ snapshot = NoSnapshot
    /\ pins = <<>>
    /\ overflow_checks = FALSE
    /\ digital_pins = <<>>
    /\ phase = "off"
    /\ last = NoCall
    /\ rb = NoRebuild
    /\ LibIdle

\* a call of DigitalPin::from_digital
FromDigital ==
    /\ ~snapshot.done
    /\ LET made == from_digital(firmata_pin)
       IN  snapshot' = [done |-> TRUE, panic |-> made.panic, pin |-> made.pin]
    /\ UNCHANGED <<pins, digital_pins, phase, last, overflow_checks, firmata_pin, rb, lib_vars>>

SpecSnap == InitSnap /\ [][FromDigital]_vars

\* The advertised entries whose mode is the active one.
ActiveEntries(fpin) == {i \in DOMAIN fpin.modes : fpin.modes[i].mode = fpin.mode}

KnownCode(code) == code \in 0..11

\* C9: from_digital yields a snapshot whenever every code of the descriptor is
\* a known mode and the advertised sequence is empty or holds the active mode
\* once; the snapshot's supported_modes are the modes of the advertised
\* sequence, in order and with duplicates kept, its mode is the active mode,
\* its bit_resolution the resolution paired with the active mode, and 0 with
\* no supported mode when the sequence is empty.
C9_SnapshotOfDescriptor ==
    snapshot.done =>
        LET fpin == firmata_pin
            pin  == snapshot.pin
        IN  /\ ( /\ KnownCode(fpin.mode)
                 /\ \A i \in DOMAIN fpin.modes : KnownCode(fpin.modes[i].mode)
                 /\ (fpin.modes = <<>> \/ Cardinality(ActiveEntries(fpin)) = 1) )
                  => ~snapshot.panic
            /\ ~snapshot.panic =>
                  /\ Len(pin.valid_modes) = Len(fpin.modes)
                  /\ \A i \in DOMAIN fpin.modes :
                        /\ pin.valid_modes[i] \in PinModeSet
                        /\ PinMode_as_u8(pin.valid_modes[i]) = fpin.modes[i].mode
                  /\ pin.mode \in PinModeSet
                  /\ PinMode_as_u8(pin.mode) = fpin.mode
                  /\ fpin.modes = <<>> => (pin.bit_resolution = 0 /\ pin.valid_modes = <<>>)
                  /\ fpin.modes # <<>> =>
                        \A i \in ActiveEntries(fpin) :
                            pin.bit_resolution = fpin.modes[i].resolution

\* C9 witness: a snapshot was built from three advertised entries, two of
\* them the same non-active mode, and took the active mode's resolution 255.
C9_Witness ==
    /\ snapshot.done /\ ~snapshot.panic
    /\ Len(firmata_pin.modes) = 3
    /\ firmata_pin.modes[1].mode = firmata_pin.modes[3].mode
    /\ firmata_pin.modes[2].mode = firmata_pin.mode
    /\ snapshot.pin.bit_resolution = 255
    /\ snapshot.pin.valid_modes = <<"InputPullup", "DigitalOutput", "InputPullup">>

\* C10: a descriptor with more than one advertised entry of the active mode
\* has no snapshot, construction aborts; and a snapshot built from a
\* non-empty sequence has the resolution of an entry of the active mode.
C10_NoSilentResolution ==
    snapshot.done =>
        /\ Cardinality(ActiveEntries(firmata_pin)) > 1 => snapshot.panic
        /\ (~snapshot.panic /\ firmata_pin.modes # <<>>) =>
              \E i \in ActiveEntries(firmata_pin) :
                  snapshot.pin.bit_resolution = firmata_pin.modes[i].resolution

\* C10 witness: construction aborted on a descriptor that advertises the
\* active mode twice with different resolutions.
C10_Witness ==
    /\ snapshot.done /\ snapshot.panic
    /\ KnownCode(firmata_pin.mode)
    /\ \A i \in DOMAIN firmata_pin.modes : KnownCode(firmata_pin.modes[i].mode)
    /\ \E i, j \in ActiveEntries(firmata_pin) :
          firmata_pin.modes[i].resolution # firmata_pin.modes[j].resolution

----------------------------------------------------------------------------
(* The snapshot rebuild step by step: SpecRebuild                          *)
(*                                                                         *)
(* rb.chan[j] is the queue of the j-th mpsc channel, rb.tx_alive[j] tells  *)
(* whether its Sender still exists.  Iteration k + 1 of the loop receives  *)
(* on channel k + 1 and sends on channel k + 2.  recv blocks while the     *)
(* queue is empty and the Sender alive, and fails once the Sender is gone. *)

InitRebuild ==
    /\ pins \in PinLists
    /\ rb = [NoRebuild EXCEPT !.pc = "start"]
    /\ overflow_checks = FALSE
    /\ digital_pins = <<>>
    /\ phase = "off"
    /\ last = NoCall
    /\ firmata_pin = NoDescriptor
    /\ snapshot = NoSnapshot
    /\ LibIdle

RbStep(next) ==
    /\ rb' = next
    /\ UNCHANGED <<pins, digital_pins, phase, last, overflow_checks, firmata_pin, snapshot, lib_vars>>

\* mpsc::channel() and initial_tx.send(vec![])
RbOpen ==
    /\ rb.pc = "start"
    /\ RbStep([rb EXCEPT !.pc = "loop", !.chan = << << <<>> >> >>, !.tx_alive = <<TRUE>>])

\* the loop head: the next channel is made and the worker spawned in a scope
RbSpawn ==
    /\ rb.pc = "loop"
    /\ rb.k < Len(filter_non_analog(pins))
    /\ RbStep([rb EXCEPT !.pc = "scope", !.chan = Append(@, <<>>),
                         !.tx_alive = Append(@, TRUE), !.worker_pc = "convert"])

\* worker: DigitalPin::from_digital(firmata_pin); a panic drops current_tx
WorkerConvert ==
    /\ rb.pc = "scope"
    /\ rb.worker_pc = "convert"
    /\ LET made == from_digital(filter_non_analog(pins)[rb.k + 1])
       IN  RbStep(IF made.panic
                  THEN [rb EXCEPT !.worker_pc = "panicked", !.tx_alive[rb.k + 2] = FALSE]
                  ELSE [rb EXCEPT !.worker_pc = "recv", !.digital_pin = made.pin])

\* worker: current_rx.recv().expect(..)
WorkerRecv ==
    /\ rb.pc = "scope"
    /\ rb.worker_pc = "recv"
    /\ rb.chan[rb.k + 1] # <<>> \/ ~rb.tx_alive[rb.k + 1]
    /\ RbStep(IF rb.chan[rb.k + 1] # <<>>
              THEN [rb EXCEPT !.worker_pc = "send", !.pin_list = Head(rb.chan[rb.k + 1]),
                              !.chan[rb.k + 1] = Tail(@)]
              ELSE [rb EXCEPT !.worker_pc = "panicked", !.tx_alive[rb.k + 2] = FALSE])

\* worker: pin_list.push(digital_pin); current_tx.send(pin_list); the thread
\* ends and drops current_tx
WorkerSend ==
    /\ rb.pc = "scope"
    /\ rb.worker_pc = "send"
    /\ RbStep([rb EXCEPT !.worker_pc = "finished",
                         !.chan[rb.k + 2] = Append(@, push(rb.pin_list, rb.digital_pin)),
                         !.tx_alive[rb.k + 2] = FALSE])

\* the scope joins its worker; .expect("Crossbeam scope failed.")
RbJoin ==
    /\ rb.pc = "scope"
    /\ rb.worker_pc \in {"finished", "panicked"}
    /\ RbStep(IF rb.worker_pc = "panicked"
              THEN [rb EXCEPT !.pc = "panicked"]
              ELSE [rb EXCEPT !.pc = "loop", !.k = @ + 1, !.worker_pc = "none",
                              !.digital_pin = NoPin, !.pin_list = <<>>])

\* rx.recv().expect(..) after the loop
RbRecv ==
    /\ rb.pc = "loop"
    /\ rb.k = Len(filter_non_analog(pins))
    /\ rb.chan[rb.k + 1] # <<>> \/ ~rb.tx_alive[rb.k + 1]
    /\ RbStep(IF rb.chan[rb.k + 1] # <<>>
              THEN [rb EXCEPT !.pc = "done", !.result = Head(rb.chan[rb.k + 1]),
                              !.chan[rb.k + 1] = Tail(@)]
              ELSE [rb EXCEPT !.pc = "panicked"])

RebuildNext ==
    RbOpen \/ RbSpawn \/ WorkerConvert \/ WorkerRecv \/ WorkerSend \/ RbJoin \/ RbRecv

\* A runnable thread is scheduled: the rebuild takes a step whenever one is
\* possible.
SpecRebuild == InitRebuild /\ [][RebuildNext]_vars /\ WF_vars(RebuildNext)

RbEnded == rb.pc \in {"done", "panicked"}

\* C8 as stated: for every transport pin list the rebuild ends by returning
\* one snapshot per non-analog pin, in transport order.
C8_RebuildAlwaysReturns ==
    RbEnded => (rb.pc = "done" /\ rb.result = DerivedSnapshots(pins))

RbOutcome ==
    /\ rb.pc = "done" => (Constructible(pins) /\ rb.result = DerivedSnapshots(pins))
    /\ rb.pc = "panicked" => ~Constructible(pins)
    /\ RbEnded =>
          digital_pins_for_board(pins) = [panic |-> rb.pc = "panicked", pins |-> rb.result]

\* C8, amended: the rebuild always ends, no worker and no receive blocks for
\* ever; it returns exactly when the snapshot of every non-analog pin can be
\* constructed, and then returns one snapshot per non-analog pin in transport
\* order, analog pins contributing nothing; otherwise it aborts, as
\* processing the pins one after the other does.
C8_RebuildAsSequential == []RbOutcome /\ <>RbEnded

\* C8 witness: the rebuild of a list with an analog pin before two
\* different non-analog pins returned their two snapshots.
C8_Witness ==
    /\ rb.pc = "done"
    /\ Len(pins) = 3 /\ pins[1].analog
    /\ Len(rb.result) = 2 /\ rb.result[1] # rb.result[2]

----------------------------------------------------------------------------
(* src/cli/query.rs: the tabular listing of `arduino-cli board list`       *)
(*                                                                         *)
(* A text is a sequence of characters, each a one-character string.        *)

\* char::is_whitespace, and \s of the regex crate, on the characters used here.
Whitespace == {" ", "\t", "\n", "\r"}

\* enum Query, in discriminant order 0 .. 3.
Query == <<"Fqbn", "Port", "Id", "BoardName">>

QuerySet == {Query[i] : i \in DOMAIN Query}

\* `query as usize`
Query_as_usize_port_first(query) == IF query = "Fqbn" THEN 1 ELSE IF query = "Port" THEN 0
                                    ELSE (CHOOSE i \in DOMAIN Query : Query[i] = query) - 1

Query_as_usize(query) == (CHOOSE i \in DOMAIN Query : Query[i] = query) - 1

REQUIRED_FIELD_COUNT == 4

\* str::lines from character i on, line being the characters read since the
\* last line feed: a line ends at "\n", a "\r" right before it is dropped,
\* and what follows the last "\n" is a line only when it is not empty.
RECURSIVE lines_from(_, _, _)
lines_from(text, i, line) ==
    IF i > Len(text) THEN (IF line = <<>> THEN <<>> ELSE <<line>>)
    ELSE IF text[i] = "\n"
    THEN LET stripped == IF line # <<>> /\ line[Len(line)] = "\r"
                         THEN SubSeq(line, 1, Len(line) - 1) ELSE line
         IN  <<stripped>> \o lines_from(text, i + 1, <<>>)
    ELSE lines_from(text, i + 1, Append(line, text[i]))

lines(text) == lines_from(text, 1, <<>>)

\* Iterator::skip(n)
skip_none(iter, n) == iter

skip(iter, n) == IF Len(iter) <= n THEN <<>> ELSE SubSeq(iter, n + 1, Len(iter))

\* Regex::new(r"^\s*$").is_match(line)
emtpy_line_is_match(line) == \A i \in DOMAIN line : line[i] \in Whitespace

\* str::split('\t') from character i on, field being the characters read
\* since the last tab: n tabs give n + 1 fields, empty ones included.
RECURSIVE split_from(_, _, _)
split_from(board_entry, i, field) ==
    IF i > Len(board_entry) THEN <<field>>
    ELSE IF board_entry[i] = "\t"
    THEN <<field>> \o split_from(board_entry, i + 1, <<>>)
    ELSE split_from(board_entry, i + 1, Append(field, board_entry[i]))

split_tab(board_entry) == split_from(board_entry, 1, <<>>)

\* str::trim: leading and trailing whitespace removed.
RECURSIVE trim_start(_)
trim_start(field) ==
    IF field # <<>> /\ Head(field) \in Whitespace THEN trim_start(Tail(field)) ELSE field

RECURSIVE trim_end(_)
trim_end(field) ==
    IF field # <<>> /\ field[Len(field)] \in Whitespace
    THEN trim_end(SubSeq(field, 1, Len(field) - 1)) ELSE field

trim_none(field) == field

trim(field) == trim_end(trim_start(field))

\* A Result<String, Error>: the variant, and the String of Ok.
QueryResult(result, value) == [result |-> result, value |-> value]

\* query_from_board_entry
query_from_board_entry_at_least(query, board_entry) ==
    LET query_column == Query_as_usize(query)
        fields       == split_tab(board_entry)
    IN  IF Len(fields) < REQUIRED_FIELD_COUNT THEN QueryResult("UnexpectedSyntax", <<>>)
        ELSE IF trim(fields[Query_as_usize("Fqbn") + 1]) = <<>>
        THEN QueryResult("MissingCore", <<>>)
        ELSE QueryResult("Ok", fields[query_column + 1])

query_from_board_entry(query, board_entry) ==
    LET query_column == Query_as_usize(query)
        fields       == split_tab(board_entry)
    IN  IF Len(fields) # REQUIRED_FIELD_COUNT THEN QueryResult("UnexpectedSyntax", <<>>)
        ELSE IF trim(fields[Query_as_usize("Fqbn") + 1]) = <<>>
        THEN QueryResult("MissingCore", <<>>)
        ELSE QueryResult("Ok", fields[query_column + 1])

\* The for loop of query_from_board_list from line k of the skipped
\* iterator on; board_entry is the Option<&str>, <<>> or <<line>>.
RECURSIVE board_entry_loop(_, _, _)
board_entry_loop(rest, k, board_entry) ==
    IF k > Len(rest) THEN [multiple |-> FALSE, board_entry |-> board_entry]
    ELSE IF ~emtpy_line_is_match(rest[k])
    THEN IF board_entry = <<>> THEN board_entry_loop(rest, k + 1, <<rest[k]>>)
         ELSE [multiple |-> TRUE, board_entry |-> board_entry]
    ELSE board_entry_loop(rest, k + 1, board_entry)

\* query_from_board_list
query_from_board_list(query, board_list) ==
    LET found == board_entry_loop(skip(lines(board_list), 1), 1, <<>>)
    IN  IF found.multiple THEN QueryResult("MultipleDevices", <<>>)
        ELSE IF found.board_entry # <<>>
        THEN query_from_board_entry(query, found.board_entry[1])
        ELSE QueryResult("NoDevice", <<>>)

\* The outcome of a toolchain call: its Result and how many times it ran
\* the external process.
CliOutcome(result, value, args) ==
    [result |-> result, value |-> value, invoked |-> IF args = <<>> THEN 0 ELSE 1, args |-> args]

\* Command::new("arduino-cli").args(..): the arguments of the one invocation.
Args(words) == [i \in DOMAIN words |-> <<words[i]>>]

\* query: Command::output() fails when the process cannot be started; its
\* exit status is not looked at; str::from_utf8 of the captured stdout.
query(q, proc) ==
    LET args == Args(<<"board", "list">>)
    IN  IF ~proc.spawn THEN CliOutcome("CommandFailure", <<>>, args)
        ELSE IF ~proc.utf8 THEN CliOutcome("CommandFailure", <<>>, args)
        ELSE LET found == query_from_board_list(q, proc.stdout)
             IN  CliOutcome(found.result, found.value, args)

----------------------------------------------------------------------------
(* src/cli/board.rs and src/cli/info.rs: the structured listing of         *)
(* `arduino-cli board list --format json`                                  *)
(*                                                                         *)
(* info.rs holds the same code as board.rs under the names DeviceInfo and  *)
(* device_infos_from_board_list.  A String is a sequence of pieces, a      *)
(* piece being a run of ordinary characters or one of the two characters   *)
(* JSON escapes, the quote and the backslash.  A JSON text is a sequence   *)
(* of tokens: punctuation, null, and string literals holding the escaped   *)
(* pieces between their quotes.                                            *)

Quote == "\""

Backslash == "\\"

Tok(t, s) == [t |-> t, s |-> s]

Punct(t) == Tok(t, <<>>)

\* serde_json's string writer: quote and backslash get a backslash in front.
RECURSIVE format_escaped_str(_)
format_escaped_str(value) ==
    IF value = <<>> THEN <<>>
    ELSE (IF Head(value) \in {Quote, Backslash} THEN <<Backslash, Head(value)>>
          ELSE <<Head(value)>>) \o format_escaped_str(Tail(value))

\* serde_json's string reader on the pieces between the quotes: <<>> for an
\* invalid escape, else <<the string>>.
RECURSIVE parse_str(_)
parse_str(escaped) ==
    IF escaped = <<>> THEN << <<>> >>
    ELSE IF Head(escaped) = Quote THEN <<>>
    ELSE IF Head(escaped) = Backslash
    THEN IF Len(escaped) >= 2 /\ escaped[2] \in {Quote, Backslash}
         THEN LET rest == parse_str(SubSeq(escaped, 3, Len(escaped)))
              IN  IF rest = <<>> THEN <<>> ELSE << <<escaped[2]>> \o rest[1] >>
         ELSE <<>>
    ELSE LET rest == parse_str(Tail(escaped))
         IN  IF rest = <<>> THEN <<>> ELSE << <<Head(escaped)>> \o rest[1] >>

\* A serde_json::Value: String, Array, Object (members in the order they
\* are written) and Null.
JsonString(value) == [k |-> "str", s |-> value, items |-> <<>>]

JsonArray(items) == [k |-> "arr", s |-> <<>>, items |-> items]

JsonObject(members) == [k |-> "obj", s |-> <<>>, items |-> members]

JsonNull == [k |-> "null", s |-> <<>>, items |-> <<>>]

Member(key, val) == [key |-> key, val |-> val]

\* Value::to_string: the compact writer.
RECURSIVE to_string(_)
RECURSIVE write_items(_, _)
to_string(value) ==
    IF value.k = "str" THEN <<Tok("str", format_escaped_str(value.s))>>
    ELSE IF value.k = "null" THEN <<Punct("null")>>
    ELSE IF value.k = "arr" THEN <<Punct("[")>> \o write_items(value.items, FALSE) \o <<Punct("]")>>
    ELSE <<Punct("{")>> \o write_items(value.items, TRUE) \o <<Punct("}")>>

write_items(items, keyed) ==
    IF items = <<>> THEN <<>>
    ELSE (IF keyed
          THEN <<Tok("str", format_escaped_str(Head(items).key)), Punct(":")>>
               \o to_string(Head(items).val)
          ELSE to_string(Head(items)))
         \o (IF Len(items) > 1 THEN <<Punct(",")>> ELSE <<>>)
         \o write_items(Tail(items), keyed)

\* struct Board / DeviceInfo and struct BoardList: the fields in declaration
\* order, and the type of each.
StructFields(type) ==
    IF type = "BoardList" THEN << <<"serialBoards">>, <<"networkBoards">> >>
    ELSE << <<"name">>, <<"fqbn">>, <<"port">>, <<"usbID">> >>

FieldType(type) == IF type = "BoardList" THEN "Vec<Board>" ELSE "String"

\* The keys of a serde_json::Map, a BTreeMap: in ascending order.
SortedFields(type) ==
    IF type = "BoardList" THEN << <<"networkBoards">>, <<"serialBoards">> >>
    ELSE << <<"fqbn">>, <<"name">>, <<"port">>, <<"usbID">> >>

Board(name, fqbn, port, usbID) == [name |-> name, fqbn |-> fqbn, port |-> port, usbID |-> usbID]

BoardField(board, field) ==
    IF field = <<"name">> THEN board.name ELSE IF field = <<"fqbn">> THEN board.fqbn
    ELSE IF field = <<"port">> THEN board.port ELSE board.usbID

\* json!(board): derived Serialize into a Value, an Object keyed by field.
Board_to_value(board) ==
    JsonObject([i \in 1..4 |-> Member(SortedFields("Board")[i],
                                      JsonString(BoardField(board, SortedFields("Board")[i])))])

Boards_to_value(boards) == JsonArray([i \in DOMAIN boards |-> Board_to_value(boards[i])])

BoardList_to_value(board_list) ==
    JsonObject(<<Member(<<"networkBoards">>, Boards_to_value(board_list.networkBoards)),
                 Member(<<"serialBoards">>, Boards_to_value(board_list.serialBoards))>>)

\* tests::list_for_boards: json!(board_list).to_string()
BoardList_to_string(board_list) == to_string(BoardList_to_value(board_list))

list_for_boards(boards) ==
    BoardList_to_string([serialBoards |-> boards, networkBoards |-> <<>>])

\* What a Deserialize step returns: failure, or the value and the position
\* of the first token after it.
DeFail == [ok |-> FALSE, val |-> <<>>, pos |-> 0]

DeOk(val, pos) == [ok |-> TRUE, val |-> val, pos |-> pos]

TokAt(toks, pos) == IF pos \in DOMAIN toks THEN toks[pos].t ELSE "eof"

\* Option<value> of the member named key among those read so far.
field_of(members, key) ==
    LET hits == {i \in DOMAIN members : members[i].key = key}
    IN  IF hits = {} THEN <<>> ELSE <<members[CHOOSE i \in hits : TRUE].val>>

\* The end of the derived visit_map: every field must have been read
\* (serde's missing_field is an error for String and for Vec).
struct_finish_default(type, members) ==
    LET got(key) == IF field_of(members, key) = <<>> THEN <<>> ELSE field_of(members, key)[1]
    IN  IF type = "BoardList"
        THEN << [serialBoards  |-> got(<<"serialBoards">>),
                 networkBoards |-> got(<<"networkBoards">>)] >>
        ELSE << Board(got(<<"name">>), got(<<"fqbn">>), got(<<"port">>), got(<<"usbID">>)) >>

struct_finish(type, members) ==
    LET fields == StructFields(type)
        got(key) == field_of(members, key)[1]
    IN  IF \E i \in DOMAIN fields : field_of(members, fields[i]) = <<>> THEN <<>>
        ELSE IF type = "BoardList"
        THEN << [serialBoards  |-> got(<<"serialBoards">>),
                 networkBoards |-> got(<<"networkBoards">>)] >>
        ELSE << Board(got(<<"name">>), got(<<"fqbn">>), got(<<"port">>), got(<<"usbID">>)) >>

\* The derived visit_seq: the fields in declaration order, no more, no less.
struct_from_seq(type, vals) ==
    IF Len(vals) # Len(StructFields(type)) THEN <<>>
    ELSE struct_finish(type, [i \in DOMAIN vals |-> Member(StructFields(type)[i], vals[i])])

\* serde_json's Deserializer driven by the derived Deserialize of `type`:
\* String, Vec<Board>, the structs Board and BoardList (from an object or
\* from an array), and IgnoredAny for the value of an unknown key.
RECURSIVE deserialize(_, _, _)
RECURSIVE seq_loop(_, _, _, _, _)
RECURSIVE map_loop(_, _, _, _, _)
deserialize(type, toks, pos) ==
    LET t == TokAt(toks, pos)
    IN  IF type = "String"
        THEN IF t = "str" /\ parse_str(toks[pos].s) # <<>>
             THEN DeOk(parse_str(toks[pos].s)[1], pos + 1) ELSE DeFail
        ELSE IF type = "Vec<Board>"
        THEN IF t = "[" THEN seq_loop("Board", toks, pos + 1, <<>>, TRUE) ELSE DeFail
        ELSE IF type = "IgnoredAny"
        THEN IF t = "null" \/ (t = "str" /\ parse_str(toks[pos].s) # <<>>)
             THEN DeOk(<<>>, pos + 1)
             ELSE IF t = "[" THEN seq_loop("IgnoredAny", toks, pos + 1, <<>>, TRUE)
             ELSE IF t = "{" THEN map_loop("IgnoredAny", toks, pos + 1, <<>>, TRUE)
             ELSE DeFail
        ELSE IF t = "{"
        THEN LET read == map_loop(type, toks, pos + 1, <<>>, TRUE)
             IN  IF read.ok /\ struct_finish(type, read.val) # <<>>
                 THEN DeOk(struct_finish(type, read.val)[1], read.pos) ELSE DeFail
        ELSE IF t = "["
        THEN LET read == seq_loop(FieldType(type), toks, pos + 1, <<>>, TRUE)
             IN  IF read.ok /\ struct_from_seq(type, read.val) # <<>>
                 THEN DeOk(struct_from_seq(type, read.val)[1], read.pos) ELSE DeFail
        ELSE DeFail

\* SeqAccess::next_element_seed, repeated: pos is past the "[" or past the
\* previous element.
seq_loop(elem, toks, pos, acc, first) ==
    LET t  == TokAt(toks, pos)
        at == IF first THEN pos ELSE pos + 1
    IN  IF t = "]" THEN DeOk(acc, pos + 1)
        ELSE IF ~first /\ (t # "," \/ TokAt(toks, pos + 1) = "]") THEN DeFail
        ELSE LET read == deserialize(elem, toks, at)
             IN  IF read.ok THEN seq_loop(elem, toks, read.pos, Append(acc, read.val), FALSE)
                 ELSE DeFail

\* MapAccess::next_key_seed and next_value_seed, repeated: a key of the
\* struct is read as its field (twice is an error), any other is skipped.
map_loop(type, toks, pos, acc, first) ==
    LET t  == TokAt(toks, pos)
        at == IF first THEN pos ELSE pos + 1
    IN  IF t = "}" THEN DeOk(acc, pos + 1)
        ELSE IF ~first /\ t # "," THEN DeFail
        ELSE IF TokAt(toks, at) # "str" \/ TokAt(toks, at + 1) # ":" THEN DeFail
        ELSE IF parse_str(toks[at].s) = <<>> THEN DeFail
        ELSE LET key   == parse_str(toks[at].s)[1]
                 known == /\ type # "IgnoredAny"
                          /\ \E i \in DOMAIN StructFields(type) : StructFields(type)[i] = key
             IN  IF known /\ field_of(acc, key) # <<>> THEN DeFail
                 ELSE LET read == deserialize(IF known THEN FieldType(type) ELSE "IgnoredAny",
                                              toks, at + 2)
                      IN  IF ~read.ok THEN DeFail
                          ELSE map_loop(type, toks, read.pos,
                                        IF known THEN Append(acc, Member(key, read.val))
                                        ELSE acc, FALSE)

\* serde_json::from_str::<BoardList>: the value, then nothing but the end.
from_str(text) ==
    LET read == deserialize("BoardList", text, 1)
    IN  IF read.ok /\ read.pos = Len(text) + 1 THEN <<read.val>> ELSE <<>>

\* boards_from_list (board.rs), device_infos_from_board_list (info.rs)
boards_from_list_network(board_list) ==
    LET parsed == from_str(board_list)
    IN  IF parsed = <<>> THEN QueryResult("UnknownFormat", <<>>)
        ELSE QueryResult("Ok", parsed[1].networkBoards)

boards_from_list(board_list) ==
    LET parsed == from_str(board_list)
    IN  IF parsed = <<>> THEN QueryResult("UnknownFormat", <<>>)
        ELSE QueryResult("Ok", parsed[1].serialBoards)

\* board_list_serial: as query, the exit status is not looked at.
board_list_serial(proc) ==
    LET args == Args(<<"board", "list", "--format", "json">>)
    IN  IF ~proc.spawn THEN CliOutcome("CommandFailure", <<>>, args)
        ELSE IF ~proc.utf8 THEN CliOutcome("CommandFailure", <<>>, args)
        ELSE LET boards == boards_from_list(proc.stdout)
             IN  CliOutcome(boards.result, boards.value, args)

----------------------------------------------------------------------------
(* src/cli/board.rs, src/cli/info.rs: the unknown-core predicate;          *)
(* src/cli/run.rs: compile and upload                                      *)

UNKNOWN_CORE_NAME == <<"unknown">>

UNKNOWN_CORE_FQBN == <<>>

\* Board::has_unknown_core, DeviceInfo::has_unknown_core
has_unknown_core_either(self) == self.name = UNKNOWN_CORE_NAME \/ self.fqbn = UNKNOWN_CORE_FQBN

has_unknown_core(self) == self.name = UNKNOWN_CORE_NAME /\ self.fqbn = UNKNOWN_CORE_FQBN

\* sketch_to_string.  The sketch record is what the file system answers for
\* the path: canonicalize succeeds, the canonical path is a directory,
\* read_dir succeeds, the canonical path's file_name (none for the root), its
\* to_str, the names of the entries read_dir yields, the path's to_str.
sketch_to_string_any_ino(sk) ==
    IF /\ sk.canonical /\ sk.is_dir /\ sk.readable
       /\ sk.file_name # <<>> /\ sk.name_utf8
       /\ \E entry \in sk.entries : entry # <<>> /\ entry[Len(entry)] = ".ino"
       /\ sk.path_utf8
    THEN QueryResult("Ok", sk.path)
    ELSE QueryResult("InvalidSketchPath", <<>>)

sketch_to_string(sk) ==
    IF /\ sk.canonical /\ sk.is_dir /\ sk.readable
       /\ sk.file_name # <<>> /\ sk.name_utf8
       /\ Append(sk.file_name[1], ".ino") \in sk.entries
       /\ sk.path_utf8
    THEN QueryResult("Ok", sk.path)
    ELSE QueryResult("InvalidSketchPath", <<>>)

\* The match on Command::status(): Ok only for a started process that
\* exited with success.
status_result(args, proc) ==
    IF proc.spawn /\ proc.success THEN CliOutcome("Ok", <<>>, args)
    ELSE CliOutcome("CommandFailure", <<>>, args)

\* compile
compile(sk, device, proc) ==
    IF has_unknown_core(device) THEN CliOutcome("CommandFailure", <<>>, <<>>)
    ELSE LET path == sketch_to_string(sk)
         IN  IF path.result # "Ok" THEN CliOutcome("InvalidSketchPath", <<>>, <<>>)
             ELSE status_result(Args(<<"compile", "--fqbn">>) \o <<device.fqbn, path.value>>,
                                proc)

\* upload
upload(sk, device, proc) ==
    IF has_unknown_core(device) THEN CliOutcome("CommandFailure", <<>>, <<>>)
    ELSE LET path == sketch_to_string(sk)
         IN  IF path.result # "Ok" THEN CliOutcome("InvalidSketchPath", <<>>, <<>>)
             ELSE status_result(Args(<<"upload", "--port">>) \o <<device.port>>
                                \o Args(<<"--fqbn">>) \o <<device.fqbn, path.value>>, proc)

----------------------------------------------------------------------------
(* src/pin.rs: Pin                                                         *)

\* Pin::new and Pin::value: the panic of the guard, or the value the pin
\* then reports.
Pin_new_clamped(value) ==
    [panic |-> FALSE, value |-> IF value < 2 THEN 2 ELSE IF value > 12 THEN 12 ELSE value]

Pin_new(value) ==
    IF value < 2 \/ value > 12 THEN [panic |-> TRUE, value |-> 0]
    ELSE [panic |-> FALSE, value |-> value]

----------------------------------------------------------------------------
(* The toolchain layer as a state machine: SpecCli                         *)
(*                                                                         *)
(* process is what the external arduino-cli does when it is run: whether   *)
(* it can be started, whether it exits with success, whether its captured  *)
(* output is valid UTF-8, and the output itself.  process.printed is the   *)
(* listing the process printed, as the structure it was printed from.      *)

\* Most body lines after the header of a tabular listing.
MaxBodyLines == 3

\* Most tab-separated fields of a row.
MaxFields == 5

\* Most boards of a serialised board list.
MaxBoards == 2

Digits == <<"1", "2", "3", "4", "5", "6", "7", "8", "9">>

\* A line of a tabular listing: its fields and the character between them.
Line(fields, sep) == [fields |-> fields, sep |-> sep]

RECURSIVE Join(_, _)
Join(parts, sep) ==
    IF parts = <<>> THEN <<>>
    ELSE IF Len(parts) = 1 THEN parts[1]
    ELSE parts[1] \o sep \o Join(Tail(parts), sep)

LineText(line) == Join(line.fields, <<line.sep>>)

\* The text of a listing: its lines, a line feed between them and, when
\* newline_at_end, one after the last.
ListingText(listing) ==
    Join([i \in DOMAIN listing.lines |-> LineText(listing.lines[i])], <<"\n">>)
    \o (IF listing.newline_at_end THEN <<"\n">> ELSE <<>>)

\* What column j of a row may hold: nothing, a blank, a digit, text with
\* blanks around and inside.
FieldChoices(j) == {<<>>, <<" ">>, <<Digits[j]>>, <<" ", Digits[j], " ", "x">>}

RECURSIVE RowFields(_)
RowFields(n) ==
    IF n = 0 THEN {<<>>}
    ELSE {Append(fields, field) : fields \in RowFields(n - 1), field \in FieldChoices(n)}

TabRows == UNION {{Line(fields, "\t") : fields \in RowFields(n)} : n \in 1..MaxFields}

SpaceRows == {Line([j \in 1..n |-> <<Digits[j]>>], " ") : n \in 1..MaxFields}

HeaderLine == Line(<< <<"F">>, <<"P">>, <<"I">>, <<"N">> >>, "\t")

DeviceLine == Line(<< <<"1">>, <<"2">>, <<"3">>, <<"4">> >>, "\t")

Headers == {HeaderLine, DeviceLine, Line(<< <<>> >>, "\t")}

BodyLines ==
    {Line(<< <<>> >>, "\t"), Line(<< <<" ">> >>, "\t"), Line(<< <<>>, <<>> >>, "\t"),
     DeviceLine,
     Line(<< <<"5">>, <<"6">>, <<"7">>, <<"8">> >>, "\t"),
     Line(<< <<"1">>, <<"2">>, <<"3">>, <<"4">>, <<"5">> >>, "\t"),
     Line(<< <<" ">>, <<"2">>, <<"3">>, <<"4">> >>, "\t")}

Listings ==
    {[lines |-> <<>>, newline_at_end |-> FALSE]}
    \cup {[lines |-> <<HeaderLine, row>>, newline_at_end |-> nl] :
             row \in TabRows \cup SpaceRows, nl \in BOOLEAN}
    \cup {[lines |-> <<header>> \o body, newline_at_end |-> nl] :
             header \in Headers, body \in UNION {[1..k -> BodyLines] : k \in 0..MaxBodyLines},
             nl \in BOOLEAN}

SampleListings ==
    {[lines |-> <<HeaderLine>>, newline_at_end |-> TRUE],
     [lines |-> <<HeaderLine, DeviceLine>>, newline_at_end |-> TRUE]}

\* How a run of the process ends: started or not, exit status, UTF-8 output.
Mode(spawn, success, utf8) == [spawn |-> spawn, success |-> success, utf8 |-> utf8]

Normal == Mode(TRUE, TRUE, TRUE)

Modes ==
    {Normal, Mode(TRUE, FALSE, TRUE), Mode(TRUE, TRUE, FALSE), Mode(TRUE, FALSE, FALSE),
     Mode(FALSE, FALSE, FALSE)}

Process(kind, mode, stdout, printed) ==
    [kind |-> kind, spawn |-> mode.spawn, success |-> mode.success, utf8 |-> mode.utf8,
     stdout |-> stdout, printed |-> printed]

TabularProcesses ==
    {Process("tabular", Normal, ListingText(listing), listing) : listing \in Listings}
    \cup {Process("tabular", mode, ListingText(listing), listing) :
             mode \in Modes, listing \in SampleListings}

\* Boards of the structured listing: one with an installed core, the one
\* without (the two sentinel values), and one whose strings need escaping.
some_board == Board(<<"A">>, <<"B">>, <<"C">>, <<"D">>)

coreless_board == Board(UNKNOWN_CORE_NAME, UNKNOWN_CORE_FQBN, <<"Y">>, <<"Z">>)

quoted_board == Board(<<"A", Quote, "B">>, <<Backslash>>, <<Backslash, Quote>>, <<"D", Backslash, Backslash>>)

Boards == {some_board, coreless_board, quoted_board}

BoardSeqs(n) == UNION {[1..k -> Boards] : k \in 0..n}

\* Serialised board lists, network boards included.
BoardLists == [serialBoards : BoardSeqs(MaxBoards), networkBoards : BoardSeqs(1)]

BoardsProcesses ==
    {Process("boards", Normal, BoardList_to_string(board_list), board_list) :
        board_list \in BoardLists}
    \cup {Process("boards", mode, list_for_boards(<<some_board>>),
                  [serialBoards |-> <<some_board>>, networkBoards |-> <<>>]) : mode \in Modes}

\* Documents the process may print instead: records as objects with their
\* fields in any order, some left out or doubled, or no object at all;
\* the two containers in any order, left out, doubled, next to unknown keys.
FieldLists ==
    {StructFields("Board"), SortedFields("Board"),
     << <<"fqbn">>, <<"port">>, <<"usbID">> >>, << <<"name">>, <<"port">>, <<"usbID">> >>,
     << <<"name">>, <<"fqbn">>, <<"usbID">> >>, << <<"name">>, <<"fqbn">>, <<"port">> >>,
     << <<"name">>, <<"fqbn">>, <<"port">>, <<"usbID">>, <<"name">> >>,
     << <<"name">>, <<"extra">>, <<"fqbn">>, <<"port">>, <<"usbID">> >>,
     << <<"fqbn">> >>}

RecordDoc(board, fields) ==
    JsonObject([i \in DOMAIN fields |-> Member(fields[i], JsonString(BoardField(board, fields[i])))])

RecordDocs ==
    {RecordDoc(board, fields) : board \in {some_board, coreless_board}, fields \in FieldLists}
    \cup {JsonNull, JsonString(<<"A">>),
          JsonArray(<<JsonString(<<"A">>), JsonString(<<"B">>), JsonString(<<"C">>),
                      JsonString(<<"D">>)>>)}

SerialDocs ==
    {<<>>} \cup {<<record>> : record \in RecordDocs}
    \cup {<<record, Board_to_value(coreless_board)>> : record \in RecordDocs}

NetworkDocs == {<<>>} \cup {<<record>> : record \in RecordDocs}

ContainerKeys ==
    {<<"s", "n">>, <<"n", "s">>, <<"s">>, <<"n">>, <<>>, <<"s", "n", "x">>, <<"x", "s", "n">>,
     <<"s", "n", "s">>}

ContainerMember(key, serial, network) ==
    IF key = "s" THEN Member(<<"serialBoards">>, JsonArray(serial))
    ELSE IF key = "n" THEN Member(<<"networkBoards">>, JsonArray(network))
    ELSE Member(<<"extra">>, JsonObject(<<Member(<<"serialBoards">>, JsonNull)>>))

Documents ==
    {JsonObject([i \in DOMAIN keys |-> ContainerMember(keys[i], serial, network)]) :
        keys \in ContainerKeys, serial \in SerialDocs, network \in NetworkDocs}
    \cup {JsonNull, JsonString(<<"serialBoards">>),
          JsonArray(<<Boards_to_value(<<some_board>>), Boards_to_value(<<>>)>>),
          JsonArray(<<Boards_to_value(<<some_board>>)>>),
          JsonObject(<<Member(<<"serialBoards">>, JsonNull),
                       Member(<<"networkBoards">>, JsonArray(<<>>))>>)}

\* The output cut short after any number of tokens, none included, or with
\* tokens after its end.
Fragments ==
    LET text == BoardList_to_string([serialBoards |-> <<some_board, coreless_board>>,
                                     networkBoards |-> <<some_board>>])
    IN  {SubSeq(text, 1, k) : k \in 0..(Len(text) - 1)}
        \cup {text \o <<Punct("}")>>, text \o text}

DocumentProcesses ==
    {Process("document", Normal, to_string(doc), doc) : doc \in Documents}
    \cup {Process("fragment", Normal, text, JsonNull) : text \in Fragments}

\* Sketch paths: every answer of the file system that can occur together.
Sketches ==
    {sk \in [canonical : BOOLEAN, is_dir : BOOLEAN, readable : BOOLEAN,
             file_name : {<<>>, << <<"sk">> >>}, name_utf8 : BOOLEAN, path_utf8 : BOOLEAN,
             entries : SUBSET {<<"sk", ".ino">>, <<"other", ".ino">>, <<"sk">>},
             path : {<<>>, <<"/", "sk">>}] :
        /\ ~sk.canonical => sk = NoSketch
        /\ ~sk.is_dir => (~sk.readable /\ sk.file_name # <<>>)
        /\ ~sk.readable => sk.entries = {}
        /\ sk.file_name = <<>> => ~sk.name_utf8
        /\ ~sk.name_utf8 => (~sk.path_utf8 \/ sk.file_name = <<>>)
        /\ sk.canonical => sk.path = <<"/", "sk">>}

Devices ==
    {some_board, coreless_board,
     Board(UNKNOWN_CORE_NAME, <<"B">>, <<"C">>, <<"D">>),
     Board(<<"A">>, UNKNOWN_CORE_FQBN, <<"C">>, <<"D">>)}

RunModes == {Normal, Mode(TRUE, FALSE, TRUE), Mode(FALSE, FALSE, FALSE)}

RunProcesses == {Process("run", mode, <<>>, <<>>) : mode \in RunModes}

BoardIdle ==
    /\ pins = <<>>
    /\ digital_pins = <<>>
    /\ phase = "off"
    /\ last = NoCall
    /\ overflow_checks = FALSE
    /\ firmata_pin = NoDescriptor
    /\ snapshot = NoSnapshot
    /\ rb = NoRebuild

InitCli ==
    /\ BoardIdle
    /\ cli = NoCliCall
    /\ pin_new = NoPinNew
    /\ \/ /\ process \in TabularProcesses \cup BoardsProcesses \cup DocumentProcesses
          /\ sketch = NoSketch
          /\ device_info = NoDeviceInfo
       \/ /\ process \in RunProcesses
          /\ sketch \in Sketches
          /\ device_info \in Devices

CliReturned(out, op, q) ==
    /\ cli' = [op |-> op, query |-> q, result |-> out.result, value |-> out.value,
               invoked |-> out.invoked, args |-> out.args]
    /\ UNCHANGED <<board_vars, process, sketch, device_info, pin_new>>

\* a call of cli::query
QueryCall ==
    /\ cli = NoCliCall
    /\ process.kind = "tabular"
    /\ \E q \in QuerySet : CliReturned(query(q, process), "query", q)

\* a call of cli::board_list_serial
BoardListSerial ==
    /\ cli = NoCliCall
    /\ process.kind \in {"boards", "document", "fragment"}
    /\ CliReturned(board_list_serial(process), "board_list_serial", "none")

\* a call of cli::compile
Compile ==
    /\ cli = NoCliCall
    /\ process.kind = "run"
    /\ CliReturned(compile(sketch, device_info, process), "compile", "none")

\* a call of cli::upload
Upload ==
    /\ cli = NoCliCall
    /\ process.kind = "run"
    /\ CliReturned(upload(sketch, device_info, process), "upload", "none")

CliNext == QueryCall \/ BoardListSerial \/ Compile \/ Upload

SpecCli == InitCli /\ [][CliNext]_vars

----------------------------------------------------------------------------
(* What the claims about the tabular listing speak about                   *)

\* A query whose process started and printed valid UTF-8: the listing was parsed.
Parsed == cli.op = "query" /\ process.spawn /\ process.utf8

BlankText(text) == \A i \in DOMAIN text : text[i] \in {" ", "\t"}

\* The lines of the printed listing after the first that are not blank.
Candidates ==
    {i \in DOMAIN process.printed.lines :
        i >= 2 /\ ~BlankText(LineText(process.printed.lines[i]))}

TheCandidate == process.printed.lines[CHOOSE i \in Candidates : TRUE]

OneCandidate == Parsed /\ Cardinality(Candidates) = 1

\* The column a query names: identity, port, numeric id, display name.
ColumnOf(q) == IF q = "Fqbn" THEN 1 ELSE IF q = "Port" THEN 2 ELSE IF q = "Id" THEN 3 ELSE 4

\* C11: the first line is skipped whatever it holds, and so is every blank
\* or whitespace-only line; each other line is a candidate.  No candidate
\* gives NoDevice, two or more give MultipleDevices whatever the rows hold,
\* and only with exactly one candidate are the fields of a row examined: the
\* result is then the one of that row.
C11_CandidateCount ==
    Parsed =>
        /\ Cardinality(Candidates) = 0 => cli.result = "NoDevice"
        /\ Cardinality(Candidates) >= 2 => cli.result = "MultipleDevices"
        /\ Cardinality(Candidates) = 1 =>
              /\ cli.result \in {"Ok", "UnexpectedSyntax", "MissingCore"}
              /\ QueryResult(cli.result, cli.value)
                    = query_from_board_entry(cli.query, LineText(TheCandidate))

\* C11 witness: a listing whose first line is a device row, followed by a
\* tab-only line, a row of five fields and a well-formed row, gave
\* MultipleDevices.
C11_Witness ==
    /\ Parsed /\ cli.result = "MultipleDevices"
    /\ Len(process.printed.lines) = 4
    /\ process.printed.lines[1] = DeviceLine
    /\ LineText(process.printed.lines[2]) = <<"\t">>
    /\ Len(process.printed.lines[3].fields) = 5
    /\ process.printed.lines[4] = DeviceLine

\* C12: a single candidate row is accepted only with exactly 4 fields; with
\* fewer or with more the result is UnexpectedSyntax, whichever field the
\* query names.
C12_FieldCount ==
    OneCandidate =>
        /\ Len(TheCandidate.fields) # 4 => cli.result = "UnexpectedSyntax"
        /\ cli.result = "Ok" => Len(TheCandidate.fields) = 4

\* C12 witness: a query for the display name on a single row of five
\* tab-separated fields gave UnexpectedSyntax.
C12_Witness ==
    /\ OneCandidate /\ cli.query = "BoardName" /\ cli.result = "UnexpectedSyntax"
    /\ TheCandidate.sep = "\t" /\ Len(TheCandidate.fields) = 5
    /\ \A j \in 1..5 : TheCandidate.fields[j] = <<Digits[j]>>

NonBlankFields(line) == \A j \in DOMAIN line.fields : ~BlankText(line.fields[j])

C14_MissingCore ==
    (OneCandidate /\ TheCandidate.sep = "\t" /\ Len(TheCandidate.fields) = 4) =>
        (cli.result = "MissingCore" <=> BlankText(TheCandidate.fields[1]))

\* C14 witness: a query for the port on a row whose first field is one blank,
\* the port field being "2", gave MissingCore.
C14_Witness ==
    /\ OneCandidate /\ cli.query = "Port" /\ cli.result = "MissingCore"
    /\ TheCandidate.sep = "\t" /\ Len(TheCandidate.fields) = 4
    /\ TheCandidate.fields[1] = <<" ">> /\ TheCandidate.fields[2] = <<"2">>

----------------------------------------------------------------------------
(* What the claims about the structured listing speak about                *)

\* A board_list_serial whose process started and printed valid UTF-8.
Deserialized == cli.op = "board_list_serial" /\ process.spawn /\ process.utf8

\* C15: for every list of board records, the two sentinel values and strings
\* that need escaping included, the text of the board list that holds it as
\* serialBoards parses back to the same records in the same order; the
\* records of networkBoards are not in the result.
C15_RoundTrip ==
    (Deserialized /\ process.kind = "boards") =>
        /\ cli.result = "Ok"
        /\ cli.value = process.printed.serialBoards
        /\ Len(cli.value) = Len(process.printed.serialBoards)

\* C15 witness: a list of the coreless and the quoted board came back as it
\* was, the network board next to it did not.
C15_Witness ==
    /\ Deserialized /\ process.kind = "boards" /\ cli.result = "Ok"
    /\ process.printed.networkBoards = <<some_board>>
    /\ cli.value = <<coreless_board, quoted_board>>

HasKey(object, key) == \E i \in DOMAIN object.items : object.items[i].key = key

\* The printed document is an object without one of the two containers.
MissingContainer(doc) ==
    doc.k = "obj" /\ (~HasKey(doc, <<"serialBoards">>) \/ ~HasKey(doc, <<"networkBoards">>))

\* A record of either container is an object without one of its four fields.
RecordLacksField(doc) ==
    /\ doc.k = "obj"
    /\ \E i \in DOMAIN doc.items :
          /\ doc.items[i].key \in {<<"serialBoards">>, <<"networkBoards">>}
          /\ doc.items[i].val.k = "arr"
          /\ \E j \in DOMAIN doc.items[i].val.items :
                LET record == doc.items[i].val.items[j]
                IN  /\ record.k = "obj"
                    /\ \E f \in DOMAIN StructFields("Board") :
                          ~HasKey(record, StructFields("Board")[f])

\* The number of records in the serialBoards container of a printed object.
SerialCount(doc) ==
    LET i == CHOOSE m \in DOMAIN doc.items : doc.items[m].key = <<"serialBoards">>
    IN  Len(doc.items[i].val.items)

\* C16: structured parsing gives Ok with the whole serial list or
\* UnknownFormat with no list at all; it gives UnknownFormat for empty input
\* and every output cut short or continued past its end, for a document
\* without the serial or the network container, and for a document with a
\* record, serial or network, that lacks one of name, fqbn, port, usbID.
C16_UnknownFormat ==
    Deserialized =>
        /\ cli.result \in {"Ok", "UnknownFormat"}
        /\ cli.result = "UnknownFormat" => cli.value = <<>>
        /\ process.kind = "fragment" => cli.result = "UnknownFormat"
        /\ process.kind = "document" =>
              /\ (MissingContainer(process.printed) \/ RecordLacksField(process.printed))
                    => cli.result = "UnknownFormat"
              /\ process.printed.k \notin {"obj", "arr"} => cli.result = "UnknownFormat"
              /\ (cli.result = "Ok" /\ process.printed.k = "obj")
                    => Len(cli.value) = SerialCount(process.printed)

\* C16 witness: a document whose two serial records are complete and whose
\* network record lacks its usbID gave UnknownFormat.
C16_Witness ==
    /\ Deserialized /\ process.kind = "document" /\ cli.result = "UnknownFormat"
    /\ process.printed = JsonObject(
          <<Member(<<"serialBoards">>,
                   JsonArray(<<RecordDoc(some_board, StructFields("Board")),
                               Board_to_value(coreless_board)>>)),
            Member(<<"networkBoards">>,
                   JsonArray(<<RecordDoc(some_board,
                                         << <<"name">>, <<"fqbn">>, <<"port">> >>)>>))>>)

----------------------------------------------------------------------------
(* What the claims about compile and upload speak about                    *)

Ran == cli.op \in {"compile", "upload"}

\* The record holds both sentinel values: name "unknown" and identity "".
IdentityUnknown(device) == device.name = <<"unknown">> /\ device.fqbn = <<>>

\* The three ways the validation of a sketch path fails: the path does not
\* exist, it is no directory, the directory holds no <base name>.ino.
NoSuchPath == ~sketch.canonical

NotADirectory == sketch.canonical /\ ~sketch.is_dir

NoInoFile ==
    /\ sketch.canonical /\ sketch.is_dir
    /\ sketch.file_name # <<>>
    /\ (sketch.file_name[1] \o <<".ino">>) \notin sketch.entries

ValidationFails == NoSuchPath \/ NotADirectory \/ NoInoFile

\* C17: compile and upload given a record with both sentinel values return
\* CommandFailure and run no process, whatever the sketch path; a record
\* with one sentinel value only is not identity-unknown: with a valid sketch
\* the process is run, with the record's identity among its arguments, and
\* its success gives Ok.
C17_UnknownCoreFailsFast ==
    Ran =>
        /\ has_unknown_core(device_info) <=> IdentityUnknown(device_info)
        /\ IdentityUnknown(device_info) =>
              (cli.result = "CommandFailure" /\ cli.invoked = 0 /\ cli.args = <<>>)
        /\ (~IdentityUnknown(device_info) /\ sketch_to_string(sketch).result = "Ok") =>
              /\ cli.invoked = 1
              /\ \E i \in DOMAIN cli.args : cli.args[i] = device_info.fqbn
              /\ (process.spawn /\ process.success) => cli.result = "Ok"

\* C17 witness: compile of a valid sketch for the record {name "unknown",
\* identity "", port "Y", usb-id "Z"}, the process ready to succeed, gave
\* CommandFailure without a run.
C17_Witness ==
    /\ cli.op = "compile" /\ cli.result = "CommandFailure" /\ cli.invoked = 0
    /\ device_info = Board(<<"unknown">>, <<>>, <<"Y">>, <<"Z">>)
    /\ sketch_to_string(sketch).result = "Ok"
    /\ process.spawn /\ process.success

\* C18 as stated: for every device record, compile and upload return
\* InvalidSketchPath and run no process whenever the validation of the
\* sketch path fails.
C18_InvalidSketchPath ==
    (Ran /\ ValidationFails) => (cli.result = "InvalidSketchPath" /\ cli.invoked = 0)

\* C18, amended: for every device record that is not identity-unknown,
\* compile and upload return InvalidSketchPath and run no process whenever
\* the validation of the sketch path fails; for an identity-unknown record
\* they return CommandFailure, also without a run.
C18_InvalidSketchPathKnownCore ==
    (Ran /\ ValidationFails) =>
        /\ cli.invoked = 0
        /\ cli.result = IF IdentityUnknown(device_info) THEN "CommandFailure"
                        ELSE "InvalidSketchPath"

\* C18 witness: upload for a board with an installed core of a readable
\* directory sk that holds other.ino and an entry sk, but no sk.ino, gave
\* InvalidSketchPath without a run.
C18_Witness ==
    /\ cli.op = "upload" /\ cli.result = "InvalidSketchPath" /\ cli.invoked = 0
    /\ device_info = some_board
    /\ sketch.is_dir /\ sketch.readable /\ sketch.name_utf8 /\ sketch.path_utf8
    /\ sketch.entries = {<<"other", ".ino">>, <<"sk">>}
    /\ process.spawn /\ process.success

\* C19: every operation that runs the external process returns
\* CommandFailure when the process cannot be started, when it exits with a
\* non-zero status, or when its captured output is not valid UTF-8; compile
\* and upload return Ok only for a process that ran and exited with success;
\* no operation runs the process more than once.
C19_CommandFailure ==
    cli.op # "none" =>
        /\ cli.invoked <= 1
        /\ cli.op \in {"query", "board_list_serial"} =>
              ((~process.spawn \/ ~process.success \/ ~process.utf8)
                  => cli.result = "CommandFailure")
        /\ Ran =>
              /\ (cli.invoked = 1 /\ (~process.spawn \/ ~process.success))
                    => cli.result = "CommandFailure"
              /\ cli.result = "Ok" => (cli.invoked = 1 /\ process.spawn /\ process.success)

----------------------------------------------------------------------------
(* Pin construction: SpecPin                                               *)

\* The i32 arguments Pin::new is called with.
PinValues == (-50..60) \cup {MinI32, MaxI32}

InitPin ==
    /\ BoardIdle
    /\ LibIdle

\* a call of Pin::new, and of value() on the pin when there is one
PinNew ==
    /\ ~pin_new.called
    /\ \E value \in PinValues :
          LET made == Pin_new(value)
          IN  pin_new' = [called |-> TRUE, arg |-> value, panic |-> made.panic,
                          value |-> made.value]
    /\ UNCHANGED <<board_vars, process, sketch, device_info, cli>>

SpecPin == InitPin /\ [][PinNew]_vars

\* C20: Pin::new accepts exactly the integers 2 .. 12: for these the pin's
\* value() is the argument, for every other integer the construction fails
\* and there is no pin, with a clamped value or any other.
C20_PinRange ==
    pin_new.called =>
        /\ pin_new.arg \in 2..12 => (~pin_new.panic /\ pin_new.value = pin_new.arg)
        /\ pin_new.arg \notin 2..12 => pin_new.panic

\* C20 witness: Pin::new(13) failed.
C20_Witness == pin_new.called /\ pin_new.arg = 13 /\ pin_new.panic

====
